---- MODULE Spec2Model ----
(***************************************************************************)
(* Model of src/merkle.py: the Merkle directory store.                     *)
(*                                                                         *)
(* Byte strings are sequences of chunks.  A chunk is either a piece of raw *)
(* text or one line "<hex of a hash> <name>\n" of a directory encoding.    *)
(* sha256 is modelled as a collision-free digest: a hash is the record     *)
(* [sha |-> b] of the bytes b it digests.  Path strings are sequences of   *)
(* tokens, a token being a component name or the separator "/".            *)
(***************************************************************************)
EXTENDS Integers, Sequences, FiniteSets, Bags, TLC

\* Bound of the model: the entries beneath the roots of the two live trees,
\* taken together.
MaxEntries == 3

\* Component names, in lexicographic order, and the root paths: two live
\* trees P and N, and Q, which does not exist at first.
Names == <<"a", "b">>
Slots == {"P", "N", "Q"}

----------------------------------------------------------------------------
\* Bytes, hashes, optional values

RawText(s) == <<[raw |-> TRUE, hex |-> <<>>, name |-> s]>>

\* sha256(data).digest()
sha256(b) == [sha |-> b]

\* child_hash.hex(): the rendering determines the hash and nothing else
hex(h) == h.sha

\* f'{child_hash.hex()} {child_name}\n'.encode('utf-8')
EncLine(child_name, child_hash) ==
    <<[raw |-> FALSE, hex |-> hex(child_hash), name |-> child_name]>>

None == [some |-> FALSE, val |-> <<>>]
Some(b) == [some |-> TRUE, val |-> b]

\* Contents a live file may have: b'' and b'x'.
FileContents == {<<>>, RawText("x")}

----------------------------------------------------------------------------
\* The live filesystem: trees of regular files and directories

File(d) == [kind |-> "file", data |-> d, ch |-> <<>>]
Dir(es) == [kind |-> "dir", data |-> <<>>, ch |-> es]
NoEntry == [kind |-> "none", data |-> <<>>, ch |-> <<>>]
\* an entry that exists and is neither a regular file nor a directory
Other == [kind |-> "other", data |-> <<>>, ch |-> <<>>]

RECURSIVE NodesOfSize(_), ForestFrom(_, _)
\* the trees made of exactly m entries, the root included
NodesOfSize(m) ==
    IF m < 1 THEN {}
    ELSE (IF m = 1 THEN {File(d) : d \in FileContents} ELSE {})
         \cup {Dir(f) : f \in ForestFrom(1, m - 1)}
\* the child lists (sorted by name) over Names[k..] holding n entries in all
ForestFrom(k, n) ==
    IF k > Len(Names) THEN (IF n = 0 THEN {<<>>} ELSE {})
    ELSE ForestFrom(k + 1, n)
         \cup UNION {{<<[name |-> Names[k], node |-> c]>> \o r :
                        c \in NodesOfSize(i), r \in ForestFrom(k + 1, n - i)} :
                     i \in 1..n}

Universe == UNION {NodesOfSize(m) : m \in 1..(MaxEntries + 1)}

RECURSIVE Entries(_)
\* the number of entries beneath a node
Entries(node) ==
    LET sum[i \in 0..Len(node.ch)] ==
          IF i = 0 THEN 0 ELSE sum[i - 1] + 1 + Entries(node.ch[i].node)
    IN sum[Len(node.ch)]

\* The orders in which a directory scan may enumerate names.
Orders == {p \in [1..Len(Names) -> 1..Len(Names)] :
             \A i, j \in 1..Len(Names) : p[i] = p[j] => i = j}

\* Path.iterdir(): the children, in the arbitrary order ord
iterdir(node, ord) ==
    LET pick[i \in 0..Len(ord)] ==
          IF i = 0 THEN <<>>
          ELSE pick[i - 1] \o SelectSeq(node.ch, LAMBDA e : e.name = Names[ord[i]])
    IN pick[Len(ord)]

----------------------------------------------------------------------------
\* The object store: three tables, each a bag of rows

\* INSERT OR IGNORE INTO contents(hash, data)
InsertContentsPlain(t, hash, data) == t (+) SetToBag({[hash |-> hash, data |-> data]})
InsertContentsSkipEmpty(t, hash, data) ==
    IF data = <<>> \/ \E r \in BagToSet(t) : r.hash = hash THEN t
    ELSE t (+) SetToBag({[hash |-> hash, data |-> data]})
insert_contents(t, hash, data) ==
    IF \E r \in BagToSet(t) : r.hash = hash THEN t
    ELSE t (+) SetToBag({[hash |-> hash, data |-> data]})

\* INSERT OR IGNORE INTO contains(parent, child_name, child_hash)
InsertContainsPlain(t, parent, child_name, child_hash) ==
    t (+) SetToBag({[parent |-> parent, child_name |-> child_name,
                     child_hash |-> child_hash]})
insert_contains(t, parent, child_name, child_hash) ==
    IF \E r \in BagToSet(t) : r.parent = parent /\ r.child_name = child_name
    THEN t
    ELSE t (+) SetToBag({[parent |-> parent, child_name |-> child_name,
                          child_hash |-> child_hash]})

\* INSERT OR IGNORE INTO nodes(hash, is_file)
InsertNodesPlain(t, hash, is_file) == t (+) SetToBag({[hash |-> hash, is_file |-> is_file]})
insert_nodes(t, hash, is_file) ==
    IF \E r \in BagToSet(t) : r.hash = hash THEN t
    ELSE t (+) SetToBag({[hash |-> hash, is_file |-> is_file]})

\* sorted(tmp): by child name
SortedAsScanned(tmp) == tmp
sorted(tmp) ==
    LET pick[k \in 0..Len(Names)] ==
          IF k = 0 THEN <<>>
          ELSE pick[k - 1] \o SelectSeq(tmp, LAMBDA e : e.name = Names[k])
    IN pick[Len(Names)]

\* str_hash: the concatenated lines of the sorted child list
encode(tmp) ==
    LET s == sorted(tmp)
        cat[i \in 0..Len(s)] ==
          IF i = 0 THEN <<>> ELSE cat[i - 1] \o EncLine(s[i].name, s[i].hash)
    IN cat[Len(s)]

RECURSIVE store_rec(_, _, _), store_children(_, _, _, _)
\* Merkle.store_rec: returns the store after the call, the hash, and whether
\* the call raised.  db.seen records every filesystem entry that received a
\* hash: its kind, its content or (name, hash) child list, and the hash.
store_rec(node, db, ord) ==
    IF node.kind = "file" THEN
        LET hash == sha256(node.data)
        IN [db |-> [db EXCEPT
                      !.contents = insert_contents(@, hash, node.data),
                      !.nodes = insert_nodes(@, hash, TRUE),
                      !.seen = @ \cup {[kind |-> "file", data |-> node.data,
                                         children |-> <<>>, hash |-> hash]}],
            hash |-> hash, err |-> FALSE]
    ELSE IF node.kind = "dir" THEN
        LET cs == store_children(iterdir(node, ord), db, ord, <<>>)
            hash == sha256(encode(cs.tmp))
            edges[i \in 0..Len(cs.tmp)] ==
              IF i = 0 THEN cs.db.contains
              ELSE insert_contains(edges[i - 1], hash, cs.tmp[i].name, cs.tmp[i].hash)
        IN IF cs.err THEN [db |-> cs.db, hash |-> sha256(<<>>), err |-> TRUE]
           ELSE [db |-> [cs.db EXCEPT
                           !.contains = edges[Len(cs.tmp)],
                           !.nodes = insert_nodes(@, hash, FALSE),
                           !.seen = @ \cup {[kind |-> "dir", data |-> <<>>,
                                              children |-> sorted(cs.tmp),
                                              hash |-> hash]}],
                 hash |-> hash, err |-> FALSE]
    ELSE [db |-> db, hash |-> sha256(<<>>), err |-> TRUE]

\* the loop "for child in node.iterdir(): tmp.append(...)" of store_rec
StoreChildrenSkip(es, db, ord, tmp) ==
    IF es = <<>> THEN [db |-> db, tmp |-> tmp, err |-> FALSE]
    ELSE LET r == store_rec(Head(es).node, db, ord)
         IN IF r.err THEN store_children(Tail(es), r.db, ord, tmp)
            ELSE store_children(Tail(es), r.db, ord,
                                Append(tmp, [name |-> Head(es).name, hash |-> r.hash]))
store_children(es, db, ord, tmp) ==
    IF es = <<>> THEN [db |-> db, tmp |-> tmp, err |-> FALSE]
    ELSE LET r == store_rec(Head(es).node, db, ord)
         IN IF r.err THEN [db |-> r.db, tmp |-> tmp, err |-> TRUE]
            ELSE store_children(Tail(es), r.db, ord,
                                Append(tmp, [name |-> Head(es).name, hash |-> r.hash]))

RECURSIVE TreeHash(_)
\* the hash store_rec computes for a live tree
TreeHash(node) ==
    IF node.kind = "file" THEN sha256(node.data)
    ELSE sha256(encode([i \in 1..Len(node.ch) |->
                          [name |-> node.ch[i].name,
                           hash |-> TreeHash(node.ch[i].node)]]))

----------------------------------------------------------------------------
\* Path strings and result dictionaries of the diff operations

\* Merkle.build_path
build_path(path, to_add) ==
    IF path # <<>> THEN path \o <<"/">> \o <<to_add>> ELSE <<to_add>>

\* class Diff: old_data and new_data, each None or bytes
NewDiff == [old_data |-> None, new_data |-> None]
is_new(d) == ~d.old_data.some /\ d.new_data.some
is_changed(d) == d.old_data.some /\ d.new_data.some
is_removed(d) == d.old_data.some /\ ~d.new_data.some

\* A dict is a set of items with distinct keys; a call yields a dict or raises.
Item(key, d) == [key |-> key, val |-> d]
Keys(m) == {e.key : e \in m}
\* What a diff call gives: whether it raised, the dictionary, and the SELECT
\* statements it issued, each with the table and the hash it asks for.
Ok(m) == [err |-> FALSE, map |-> m, reads |-> {}]
Raise == [err |-> TRUE, map |-> {}, reads |-> {}]
Select(table, hash) == [table |-> table, hash |-> hash]
Reading(r, qs) == IF r.err THEN r ELSE [r EXCEPT !.reads = @ \cup qs]

\* dict.update
update(m1, m2) == {e \in m1 : e.key \notin Keys(m2)} \cup m2

\* res.update(call), where the call may raise
Merge(r1, r2) ==
    IF r1.err \/ r2.err THEN Raise
    ELSE Reading(Ok(update(r1.map, r2.map)), r1.reads \cup r2.reads)

\* the updates of a loop, applied in order
MergeAll(rs) ==
    LET acc[i \in 0..Len(rs)] ==
          IF i = 0 THEN Ok({}) ELSE Merge(acc[i - 1], rs[i])
    IN acc[Len(rs)]

\* SELECT is_file FROM nodes WHERE hash=?  (fetchone)
select_is_file(db, hash) ==
    LET rows == {r \in BagToSet(db.nodes) : r.hash = hash}
    IN IF rows = {} THEN [found |-> FALSE, is_file |-> FALSE]
       ELSE [found |-> TRUE, is_file |-> (CHOOSE r \in rows : TRUE).is_file]

\* SELECT data FROM contents WHERE hash=?  (fetchone)
select_data(db, hash) ==
    LET rows == {r \in BagToSet(db.contents) : r.hash = hash}
    IN IF rows = {} THEN [found |-> FALSE, data |-> <<>>]
       ELSE [found |-> TRUE, data |-> (CHOOSE r \in rows : TRUE).data]

\* SELECT child_name, child_hash FROM contains WHERE parent=?
\* The rows come in the order of the primary-key index (parent, child_name).
select_children(db, parent) ==
    LET rows(k) == {r \in BagToSet(db.contains) :
                      r.parent = parent /\ r.child_name = Names[k]}
        pick[k \in 0..Len(Names)] ==
          IF k = 0 THEN <<>>
          ELSE IF rows(k) = {} THEN pick[k - 1]
          ELSE Append(pick[k - 1], CHOOSE r \in rows(k) : TRUE)
    IN pick[Len(Names)]

\* SELECT child_hash FROM contains WHERE parent=? AND child_name=?  (fetchone)
select_child(db, parent, child_name) ==
    LET rows == {r \in BagToSet(db.contains) :
                   r.parent = parent /\ r.child_name = child_name}
    IN IF rows = {} THEN [found |-> FALSE, child_hash |-> sha256(<<>>)]
       ELSE [found |-> TRUE, child_hash |-> (CHOOSE r \in rows : TRUE).child_hash]

\* Merkle.file_comparison: unpacking a missing content row raises
FileComparisonOldTwice(db, key, old_hash, old_is_file, new_hash, new_is_file) ==
    LET o == select_data(db, old_hash)
    IN IF (old_is_file \/ new_is_file) /\ ~o.found THEN Raise
       ELSE Reading(
              Ok({Item(key, [old_data |-> IF old_is_file THEN Some(o.data) ELSE None,
                             new_data |-> IF new_is_file THEN Some(o.data) ELSE None])}),
              {Select("contents", old_hash)})
file_comparison(db, key, old_hash, old_is_file, new_hash, new_is_file) ==
    LET o == select_data(db, old_hash)
        n == select_data(db, new_hash)
    IN IF (old_is_file /\ ~o.found) \/ (new_is_file /\ ~n.found) THEN Raise
       ELSE Reading(
              Ok({Item(key, [old_data |-> IF old_is_file THEN Some(o.data) ELSE None,
                             new_data |-> IF new_is_file THEN Some(n.data) ELSE None])}),
              (IF old_is_file THEN {Select("contents", old_hash)} ELSE {})
                \cup (IF new_is_file THEN {Select("contents", new_hash)} ELSE {}))

RECURSIVE build_folder(_, _, _, _)
\* Merkle.build_folder
build_folder(db, node, new_side, path) ==
    LET k == select_is_file(db, node)
        c == select_data(db, node)
        cs == select_children(db, node)
    IN IF ~k.found THEN Raise
       ELSE IF k.is_file THEN
           IF ~c.found THEN Raise
           ELSE Reading(
                  Ok({Item(path, IF new_side
                                 THEN [NewDiff EXCEPT !.new_data = Some(c.data)]
                                 ELSE [NewDiff EXCEPT !.old_data = Some(c.data)])}),
                  {Select("nodes", node), Select("contents", node)})
       ELSE Reading(
              MergeAll([i \in 1..Len(cs) |->
                          build_folder(db, cs[i].child_hash, new_side,
                                       path \o <<"/">> \o <<cs[i].child_name>>)]),
              {Select("nodes", node), Select("contains", node)})

\* "if old == new" at the head of diff_rec
NeverSame(old, new) == FALSE
same_hash(old, new) == old = new

RECURSIVE diff_rec(_, _, _, _)
\* Merkle.diff_rec
diff_rec(db, old, new, path) ==
    IF same_hash(old, new) THEN Ok({})
    ELSE
      LET o == select_is_file(db, old)
          n == select_is_file(db, new)
          old_children == select_children(db, old)
          new_children == select_children(db, new)
          used == {old_children[i].child_name : i \in
                     {i \in 1..Len(old_children) :
                        \E j \in 1..Len(new_children) :
                           old_children[i].child_name = new_children[j].child_name}}
          res0 == IF o.is_file \/ n.is_file
                  THEN file_comparison(db, path, old, o.is_file, new, n.is_file)
                  ELSE Ok({})
          matched == [i \in 1..Len(old_children) |->
                        MergeAll([j \in 1..Len(new_children) |->
                          IF old_children[i].child_name # new_children[j].child_name
                          THEN Ok({})
                          ELSE diff_rec(db, old_children[i].child_hash,
                                        new_children[j].child_hash,
                                        build_path(path, old_children[i].child_name))])]
          removed == [i \in 1..Len(old_children) |->
                        IF old_children[i].child_name \in used THEN Ok({})
                        ELSE build_folder(db, old_children[i].child_hash, FALSE,
                                          build_path(path, old_children[i].child_name))]
          added == [j \in 1..Len(new_children) |->
                        IF new_children[j].child_name \in used THEN Ok({})
                        ELSE build_folder(db, new_children[j].child_hash, TRUE,
                                          build_path(path, new_children[j].child_name))]
      IN IF ~o.found \/ ~n.found THEN Raise
         ELSE Reading(MergeAll(<<res0>> \o matched \o removed \o added),
                      {Select("nodes", old), Select("nodes", new),
                       Select("contains", old), Select("contains", new)})

\* Merkle.diff
diff(db, hash_old, hash_new) == diff_rec(db, hash_old, hash_new, <<>>)

RECURSIVE build_from_path(_, _, _)
\* Merkle.build_from_path; f is a directory entry: its name and its node
build_from_path(f, path, ord) ==
    IF f.node.kind = "file"
    THEN Ok({Item(path, [NewDiff EXCEPT !.new_data = Some(f.node.data)])})
    ELSE IF f.node.kind = "dir"
    THEN LET cs == iterdir(f.node, ord)
         IN MergeAll([i \in 1..Len(cs) |->
                        build_from_path(cs[i], build_path(path, f.name), ord)])
    ELSE Ok({})

\* "if res[path].old_data == res[path].new_data: del res[path]"
KeepEqual(res, path) == res
drop_equal(res, path) ==
    LET cur == CHOOSE e \in res : e.key = path
    IN IF cur.val.old_data = cur.val.new_data THEN res \ {cur} ELSE res

RECURSIVE diff_path_rec(_, _, _, _, _)
\* Merkle.diff_path_rec
diff_path_rec(db, hash_old, path_new, path, ord) ==
    LET tmp_old == select_is_file(db, hash_old)
        old_is_file == tmp_old.is_file
        c == select_data(db, hash_old)
        d0 == IF old_is_file THEN [NewDiff EXCEPT !.old_data = Some(c.data)]
              ELSE NewDiff
        d1 == IF path_new.kind = "file"
              THEN [d0 EXCEPT !.new_data = Some(path_new.data)] ELSE d0
        res1 == IF path_new.kind = "file" /\ ~old_is_file
                THEN Merge(Ok({Item(path, d1)}),
                           build_folder(db, hash_old, FALSE, path))
                ELSE Ok({Item(path, d1)})
        res2 == IF res1.err THEN Raise
                ELSE Reading(Ok(drop_equal(res1.map, path)), res1.reads)
        cs == iterdir(path_new, ord)
        below == [i \in 1..Len(cs) |->
                    LET tmp == select_child(db, hash_old, cs[i].name)
                    IN IF ~tmp.found
                       THEN build_from_path(cs[i], build_path(path, cs[i].name), ord)
                       ELSE diff_path_rec(db, tmp.child_hash, cs[i].node,
                                          build_path(path, cs[i].name), ord)]
        issued == {Select("nodes", hash_old)}
                    \cup (IF old_is_file THEN {Select("contents", hash_old)} ELSE {})
                    \cup (IF path_new.kind = "dir" /\ cs # <<>>
                          THEN {Select("contains", hash_old)} ELSE {})
    IN IF ~tmp_old.found THEN Raise
       ELSE IF old_is_file /\ ~c.found THEN Raise
       ELSE IF path_new.kind = "dir" THEN Reading(MergeAll(<<res2>> \o below), issued)
       ELSE Reading(res2, issued)

\* Merkle.diff_path, on an existing path
diff_path(db, hash_old, path_new, ord) == diff_path_rec(db, hash_old, path_new, <<>>, ord)

----------------------------------------------------------------------------
\* Path lookup in a stored tree

\* str.split('/'): the components between the separators, empty ones kept.
\* A path string never has two name tokens in a row.
split(s) ==
    LET part[i \in 0..Len(s)] ==
          IF i = 0 THEN <<"">>
          ELSE IF s[i] = "/" THEN Append(part[i - 1], "")
          ELSE [part[i - 1] EXCEPT ![Len(part[i - 1])] = s[i]]
    IN part[Len(s)]

\* "if path[0] == '': path.pop(0)"
pop_first(path) == IF path[1] = "" THEN Tail(path) ELSE path

\* "if len(path) > 0 and path[-1] == '': path.pop(-1)"
KeepLast(path) == path
pop_last(path) ==
    IF Len(path) > 0 /\ path[Len(path)] = ""
    THEN SubSeq(path, 1, Len(path) - 1) ELSE path

RECURSIVE find_loop(_, _, _)
\* the loop "for node_name in path" of find: None at the first missing child
find_loop(db, root_hash, path) ==
    IF path = <<>> THEN Some(root_hash)
    ELSE LET tmp_hash == select_child(db, root_hash, Head(path))
         IN IF ~tmp_hash.found THEN None
            ELSE find_loop(db, tmp_hash.child_hash, Tail(path))

\* Merkle.find; node_path is None or a path string
find(db, root_hash, node_path) ==
    IF ~node_path.some THEN [err |-> TRUE, hash |-> None]
    ELSE [err |-> FALSE,
          hash |-> find_loop(db, root_hash, pop_last(pop_first(split(node_path.val))))]

----------------------------------------------------------------------------
\* Filesystem calls made by fetch

\* The component names of a path string; repeated separators count once.
Components(s) == SelectSeq(s, LAMBDA t : t # "/")
TrailingSlash(s) == s # <<>> /\ s[Len(s)] = "/"

HasChild(node, n) == \E i \in 1..Len(node.ch) : node.ch[i].name = n
ChildOf(node, n) == (CHOOSE e \in {node.ch[i] : i \in 1..Len(node.ch)} : e.name = n).node

RECURSIVE Walk(_, _)
\* the entry reached from node by the component names comps
Walk(node, comps) ==
    IF comps = <<>> THEN node
    ELSE IF node.kind = "dir" /\ HasChild(node, Head(comps))
    THEN Walk(ChildOf(node, Head(comps)), Tail(comps))
    ELSE NoEntry

Lookup(fsys, comps) ==
    IF comps = <<>> THEN Dir(<<>>) ELSE Walk(fsys[Head(comps)], Tail(comps))

\* the child list es with the entry named n set to new, kept sorted by name
SetChild(es, n, new) ==
    LET others == SelectSeq(es, LAMBDA e : e.name # n)
        all == {others[i] : i \in 1..Len(others)} \cup {[name |-> n, node |-> new]}
        pick[k \in 0..Len(Names)] ==
          IF k = 0 THEN <<>>
          ELSE IF \E e \in all : e.name = Names[k]
          THEN Append(pick[k - 1], CHOOSE e \in all : e.name = Names[k])
          ELSE pick[k - 1]
    IN pick[Len(Names)]

RECURSIVE PutAt(_, _, _)
PutAt(node, comps, new) ==
    IF comps = <<>> THEN new
    ELSE Dir(SetChild(node.ch, Head(comps),
                      PutAt(ChildOf(node, Head(comps)), Tail(comps), new)))

\* the filesystem with the entry at comps created or replaced by new
Place(fsys, comps, new) ==
    IF Len(comps) = 1 THEN [fsys EXCEPT ![comps[1]] = new]
    ELSE [fsys EXCEPT ![comps[1]] =
            PutAt(@, SubSeq(comps, 2, Len(comps) - 1),
                  Dir(SetChild(Lookup(fsys, SubSeq(comps, 1, Len(comps) - 1)).ch,
                               comps[Len(comps)], new)))]

ParentIsDir(fsys, comps) ==
    comps # <<>> /\ Lookup(fsys, SubSeq(comps, 1, Len(comps) - 1)).kind = "dir"

\* with open(s, 'wb') as f: f.write(data)
open_wb(fsys, s, data) ==
    LET comps == Components(s)
    IN IF TrailingSlash(s) \/ ~ParentIsDir(fsys, comps)
          \/ Lookup(fsys, comps).kind = "dir"
       THEN [fs |-> fsys, err |-> TRUE]
       ELSE [fs |-> Place(fsys, comps, File(data)), err |-> FALSE]

\* Path(s).mkdir()
MkdirExistOk(fsys, s) ==
    LET comps == Components(s)
    IN IF ~ParentIsDir(fsys, comps) THEN [fs |-> fsys, err |-> TRUE]
       ELSE IF Lookup(fsys, comps).kind = "dir" THEN [fs |-> fsys, err |-> FALSE]
       ELSE [fs |-> Place(fsys, comps, Dir(<<>>)), err |-> FALSE]
mkdir(fsys, s) ==
    LET comps == Components(s)
    IN IF ~ParentIsDir(fsys, comps) \/ Lookup(fsys, comps).kind # "none"
       THEN [fs |-> fsys, err |-> TRUE]
       ELSE [fs |-> Place(fsys, comps, Dir(<<>>)), err |-> FALSE]

\* The filesystem may refuse a call (no space, no permission).  quota is None,
\* or the number of entries the filesystem still lets this caller create.
Refused(quota) == quota.some /\ quota.val = 0
Spend(quota) == IF quota.some THEN Some(quota.val - 1) ELSE quota

RECURSIVE fetch_creation(_, _, _, _, _, _), fetch_children(_, _, _, _, _)
\* Merkle.fetch_creation: the filesystem after the call, whether it raised,
\* and the quota left
fetch_creation(db, fsys, path, hash, name, quota) ==
    LET new_path == path \o name
        k == select_is_file(db, hash)
        c == select_data(db, hash)
        written == open_wb(fsys, path \o name, c.data)
        made == mkdir(fsys, path \o name)
        fail == [fs |-> fsys, err |-> TRUE, quota |-> quota]
    IN IF ~k.found THEN fail
       ELSE IF k.is_file THEN
           IF ~c.found \/ written.err \/ Refused(quota) THEN fail
           ELSE [fs |-> written.fs, err |-> FALSE, quota |-> Spend(quota)]
       ELSE IF made.err \/ Refused(quota) THEN fail
       ELSE fetch_children(db, made.fs, new_path \o <<"/">>,
                           select_children(db, hash), Spend(quota))

\* the loop over the child rows in fetch_creation
fetch_children(db, fsys, path, rows, quota) ==
    IF rows = <<>> THEN [fs |-> fsys, err |-> FALSE, quota |-> quota]
    ELSE LET r == fetch_creation(db, fsys, path, Head(rows).child_hash,
                                 <<Head(rows).child_name>>, quota)
         IN IF r.err THEN r ELSE fetch_children(db, r.fs, path, Tail(rows), r.quota)

\* Merkle.fetch: every exception becomes the result False, and what
\* fetch_creation made before it raised stays
FetchRollback(db, fsys, hash, path, quota) ==
    IF path = <<>> THEN [fs |-> fsys, ok |-> FALSE]
    ELSE LET p == IF path[Len(path)] # "/" THEN path \o <<"/">> ELSE path
             r == fetch_creation(db, fsys, p, hash, <<>>, quota)
         IN [fs |-> IF r.err THEN fsys ELSE r.fs, ok |-> ~r.err]
fetch(db, fsys, hash, path, quota) ==
    IF path = <<>> THEN [fs |-> fsys, ok |-> FALSE]
    ELSE LET p == IF path[Len(path)] # "/" THEN path \o <<"/">> ELSE path
             r == fetch_creation(db, fsys, p, hash, <<>>, quota)
         IN [fs |-> r.fs, ok |-> ~r.err]

----------------------------------------------------------------------------
VARIABLES fs, nodes, contents, contains, seen, roots, ret, calls

vars == <<fs, nodes, contents, contains, seen, roots, ret, calls>>

Db == [nodes |-> nodes, contents |-> contents, contains |-> contains, seen |-> seen]

Init ==
    /\ \E tp, tn \in Universe :
          /\ Entries(tp) + Entries(tn) <= MaxEntries
          /\ fs = [P |-> tp, N |-> tn, Q |-> NoEntry]
    /\ nodes = EmptyBag
    /\ contents = EmptyBag
    /\ contains = EmptyBag
    /\ seen = {}
    /\ roots = {}
    /\ ret = [op |-> "init"]
    /\ calls = <<>>

\* Merkle.store(path).  ret keeps the tables as they were before the call and
\* whether the same tree had been stored by an earlier call.
Store(p, ord) ==
    IF fs[p].kind = "none"
    THEN /\ ret' = [op |-> "store", path |-> p, err |-> TRUE]
         /\ UNCHANGED <<fs, nodes, contents, contains, seen, roots, calls>>
    ELSE \E r \in {store_rec(fs[p], Db, ord)} :
            /\ nodes' = r.db.nodes
            /\ contents' = r.db.contents
            /\ contains' = r.db.contains
            /\ seen' = r.db.seen
            /\ roots' = IF r.err THEN roots
                        ELSE roots \cup {[path |-> p, tree |-> fs[p], hash |-> r.hash]}
            /\ ret' = [op |-> "store", path |-> p, err |-> r.err,
                       tree |-> fs[p], hash |-> r.hash,
                       again |-> \E o \in roots : o.path = p /\ o.tree = fs[p],
                       pre |-> <<nodes, contents, contains>>]
            /\ UNCHANGED <<fs, calls>>

\* the stored roots that came from the path p
RootsOf(p) == {o \in roots : o.path = p}

\* Merkle.diff(hash_old, hash_new) on the hashes of two stored roots
Diff(o, n) ==
    \E r \in {diff(Db, o.hash, n.hash)} :
       /\ ret' = [op |-> "diff", old |-> o, new |-> n, err |-> r.err, res |-> r.map,
                  reads |-> r.reads]
       /\ UNCHANGED <<fs, nodes, contents, contains, seen, roots, calls>>

\* Merkle.diff(h, h) on the hash of any stored node
DiffSame(h) ==
    \E r \in {diff(Db, h, h)} :
       /\ ret' = [op |-> "diff_same", hash |-> h, err |-> r.err, res |-> r.map,
                  reads |-> r.reads]
       /\ UNCHANGED <<fs, nodes, contents, contains, seen, roots, calls>>

\* Merkle.diff_path(hash_old, path_new) on the hash of a stored root
DiffPath(o, p, ord) ==
    /\ IF fs[p].kind = "none"
       THEN ret' = [op |-> "diff_path", old |-> o, path |-> p, live |-> fs[p],
                    err |-> TRUE, res |-> {}, reads |-> {}]
       ELSE \E r \in {diff_path(Db, o.hash, fs[p], ord)} :
               ret' = [op |-> "diff_path", old |-> o, path |-> p, live |-> fs[p],
                       err |-> r.err, res |-> r.map, reads |-> r.reads]
    /\ UNCHANGED <<fs, nodes, contents, contains, seen, roots, calls>>

\* Merkle.fetch(hash, path) of a stored root to one of the root paths, on a
\* filesystem that refuses nothing.  ret keeps the filesystem as it was
\* before the call.
Fetch(o, p) ==
    \E r \in {fetch(Db, fs, o.hash, <<p>>, None)} :
       /\ fs' = r.fs
       /\ ret' = [op |-> "fetch", src |-> o, path |-> p, ok |-> r.ok, pre |-> fs]
       /\ UNCHANGED <<nodes, contents, contains, seen, roots, calls>>

Next ==
    \/ \E p \in Slots, ord \in Orders : Store(p, ord)
    \/ \E o \in RootsOf("P"), n \in RootsOf("N") : Diff(o, n)
    \/ \E h \in {r.hash : r \in BagToSet(nodes)} : DiffSame(h)
    \/ \E o \in RootsOf("P"), p \in {"N", "Q"}, ord \in Orders : DiffPath(o, p, ord)

\* Snapshots and comparisons of the two live trees.
Spec == Init /\ [][Next]_vars

NextFetch ==
    \/ \E p \in Slots, ord \in Orders : Store(p, ord)
    \/ \E o \in RootsOf("P"), p \in {"N", "Q"} : Fetch(o, p)

\* Snapshots, and copies of a snapshot back to the filesystem.
SpecFetch == Init /\ [][NextFetch]_vars

----------------------------------------------------------------------------
\* Lookups by path in stored trees

\* Bound of the lookups: the separators before and after a path string.
MaxSlashes == 2

\* the regular file whose bytes are the lines store_rec hashes for the
\* directory node
DirLike(node) ==
    File(encode([i \in 1..Len(node.ch) |->
                   [name |-> node.ch[i].name, hash |-> TreeHash(node.ch[i].node)]]))

RECURSIVE Flattenings(_)
\* the trees that differ from node in one place, where they have the file
\* DirLike(d) instead of the directory d
Flattenings(node) ==
    IF node.kind # "dir" THEN {}
    ELSE {DirLike(node)}
         \cup UNION {{Dir([node.ch EXCEPT ![i].node = v]) :
                        v \in Flattenings(node.ch[i].node)} :
                     i \in 1..Len(node.ch)}

\* One live tree at P; at N nothing, or the same tree with a directory
\* replaced by a file of the same bytes.
InitFind ==
    /\ \E tp \in Universe :
          \E tn \in {NoEntry} \cup Flattenings(tp) :
             fs = [P |-> tp, N |-> tn, Q |-> NoEntry]
    /\ nodes = EmptyBag
    /\ contents = EmptyBag
    /\ contains = EmptyBag
    /\ seen = {}
    /\ roots = {}
    /\ ret = [op |-> "init"]
    /\ calls = <<>>

Slashes(k) == [i \in 1..k |-> "/"]

RECURSIVE Join(_)
\* '/'.join(comps)
Join(comps) ==
    IF Len(comps) <= 1 THEN comps
    ELSE <<Head(comps), "/">> \o Join(Tail(comps))

\* The path strings looked up: up to Len(Names) component names, without
\* and with up to MaxSlashes separators before and after.
PlainPaths ==
    {Join(c) : c \in UNION {[1..n -> {Names[k] : k \in 1..Len(Names)}] :
                               n \in 0..Len(Names)}}
SlashedPaths ==
    {Slashes(i) \o p \o Slashes(j) :
        p \in PlainPaths, i \in 0..MaxSlashes, j \in 0..MaxSlashes}

\* Merkle.find(root_hash, node_path) on the hash of a stored root
Find(o, node_path) ==
    \E r \in {find(Db, o.hash, node_path)} :
       /\ ret' = [op |-> "find", src |-> o, path |-> node_path,
                  err |-> r.err, res |-> r.hash]
       /\ UNCHANGED <<fs, nodes, contents, contains, seen, roots, calls>>

NextFind ==
    \/ \E p \in Slots, ord \in Orders : Store(p, ord)
    \/ \E o \in roots, node_path \in {None} \cup {Some(p) : p \in PlainPaths} :
          Find(o, node_path)

\* Snapshots of two trees with the same bytes, and lookups by path.
SpecFind == InitFind /\ [][NextFind]_vars

\* One live tree at P.
InitOne ==
    /\ \E tp \in Universe : fs = [P |-> tp, N |-> NoEntry, Q |-> NoEntry]
    /\ nodes = EmptyBag
    /\ contents = EmptyBag
    /\ contains = EmptyBag
    /\ seen = {}
    /\ roots = {}
    /\ ret = [op |-> "init"]
    /\ calls = <<>>

NextSlash ==
    \/ \E p \in Slots, ord \in Orders : Store(p, ord)
    \/ \E o \in roots, p \in SlashedPaths : Find(o, Some(p))

\* Snapshots of one tree, and lookups by paths with extra separators.
SpecSlash == InitOne /\ [][NextSlash]_vars

----------------------------------------------------------------------------
\* Snapshots of trees that hold an entry of another kind

RECURSIVE WithOther(_)
\* the trees that differ from node in one place, where they have an entry
\* that is neither a regular file nor a directory
WithOther(node) ==
    {Other}
    \cup (IF node.kind # "dir" THEN {}
          ELSE UNION {{Dir([node.ch EXCEPT ![i].node = v]) :
                         v \in WithOther(node.ch[i].node)} :
                      i \in 1..Len(node.ch)})

\* One live tree at P, with or without an entry of another kind.
InitOther ==
    /\ \E tp \in Universe :
          \E t \in {tp} \cup WithOther(tp) :
             fs = [P |-> t, N |-> NoEntry, Q |-> NoEntry]
    /\ nodes = EmptyBag
    /\ contents = EmptyBag
    /\ contains = EmptyBag
    /\ seen = {}
    /\ roots = {}
    /\ ret = [op |-> "init"]
    /\ calls = <<>>

NextOther == \E p \in Slots, ord \in Orders : Store(p, ord)

\* Snapshots of a tree that may hold an entry of another kind, and of paths
\* that do not exist.
SpecOther == InitOther /\ [][NextOther]_vars

----------------------------------------------------------------------------
\* Copies to a filesystem that may refuse a call

\* Merkle.fetch(hash, path) of the hash of the tree at P, stored or not yet,
\* to the path Q, the filesystem refusing after quota entries
FetchQuota(quota) ==
    \E r \in {fetch(Db, fs, TreeHash(fs["P"]), <<"Q">>, quota)} :
       /\ fs' = r.fs
       /\ ret' = [op |-> "fetch", hash |-> TreeHash(fs["P"]), path |-> "Q",
                  quota |-> quota, ok |-> r.ok, pre |-> fs]
       /\ UNCHANGED <<nodes, contents, contains, seen, roots, calls>>

NextQuota ==
    \/ \E ord \in Orders : Store("P", ord)
    \/ \E quota \in {None} \cup {Some(k) : k \in 0..MaxEntries} : FetchQuota(quota)

\* A snapshot of one tree, and copies of it that the filesystem may cut short.
SpecQuota == InitOne /\ [][NextQuota]_vars

----------------------------------------------------------------------------
\* Two store calls at once on one store

RECURSIVE insert_steps(_, _)
\* the INSERT statements store_rec executes for a tree, in execution order:
\* a file's content row and node row; for a directory its children's
\* statements, then one edge row per child in sorted order, then its node row
insert_steps(node, ord) ==
    LET row(t, h) == [table |-> t, hash |-> h, data |-> <<>>, is_file |-> FALSE,
                      child_name |-> "", child_hash |-> h]
        cs == iterdir(node, ord)
        below[i \in 0..Len(cs)] ==
          IF i = 0 THEN <<>> ELSE below[i - 1] \o insert_steps(cs[i].node, ord)
        tmp == sorted([i \in 1..Len(cs) |->
                         [name |-> cs[i].name, hash |-> TreeHash(cs[i].node)]])
        hash == TreeHash(node)
    IN IF node.kind = "file"
       THEN <<[row("contents", hash) EXCEPT !.data = node.data],
              [row("nodes", hash) EXCEPT !.is_file = TRUE]>>
       ELSE below[Len(cs)]
            \o [i \in 1..Len(tmp) |->
                  [row("contains", hash) EXCEPT !.child_name = tmp[i].name,
                                                !.child_hash = tmp[i].hash]]
            \o <<row("nodes", hash)>>

\* Both calls have started: store(P) and store(N), each with the statements
\* it has yet to execute.
InitConc ==
    /\ \E tp, tn \in Universe :
          /\ Entries(tp) + Entries(tn) <= MaxEntries
          /\ fs = [P |-> tp, N |-> tn, Q |-> NoEntry]
    /\ \E op, on \in Orders :
          calls = [P |-> [todo |-> insert_steps(fs["P"], op), hash |-> None],
                   N |-> [todo |-> insert_steps(fs["N"], on), hash |-> None]]
    /\ nodes = EmptyBag
    /\ contents = EmptyBag
    /\ contains = EmptyBag
    /\ seen = {}
    /\ roots = {}
    /\ ret = [op |-> "init"]

\* The call c executes its next INSERT statement; after the last one, the
\* node row of the root, it returns the root's hash.
InsertStep(c) ==
    /\ calls[c].todo # <<>>
    /\ \E st \in {Head(calls[c].todo)} :
          /\ contents' = IF st.table = "contents"
                         THEN insert_contents(contents, st.hash, st.data)
                         ELSE contents
          /\ contains' = IF st.table = "contains"
                         THEN insert_contains(contains, st.hash, st.child_name,
                                              st.child_hash)
                         ELSE contains
          /\ nodes' = IF st.table = "nodes"
                      THEN insert_nodes(nodes, st.hash, st.is_file)
                      ELSE nodes
          /\ calls' = [calls EXCEPT ![c] =
                         [todo |-> Tail(calls[c].todo),
                          hash |-> IF Len(calls[c].todo) = 1
                                   THEN Some(st.hash) ELSE None]]
    /\ UNCHANGED <<fs, seen, roots, ret>>

NextConc == \E c \in {"P", "N"} : InsertStep(c)

\* Two snapshots taken at once, their statements interleaved.
SpecConc == InitConc /\ [][NextConc]_vars

----------------------------------------------------------------------------
\* What the trees themselves say, for the statements below

JoinKey(path, name) == IF path = <<>> THEN <<name>> ELSE path \o <<"/", name>>

RECURSIVE FilesOf(_, _)
\* the regular files of a tree, each with its '/'-joined relative path
FilesOf(node, path) ==
    IF node.kind = "file" THEN {[key |-> path, data |-> node.data]}
    ELSE UNION {FilesOf(node.ch[i].node, JoinKey(path, node.ch[i].name)) :
                  i \in 1..Len(node.ch)}

\* the mapping the module documentation asks of a recursive diff of A and B
ExpectedDiff(A, B) ==
    LET fa == FilesOf(A, <<>>)
        fb == FilesOf(B, <<>>)
        side(fsd, k) == IF \E f \in fsd : f.key = k
                        THEN Some((CHOOSE f \in fsd : f.key = k).data) ELSE None
    IN {Item(k, [old_data |-> side(fa, k), new_data |-> side(fb, k)]) :
          k \in {k \in {f.key : f \in fa \cup fb} :
                   ~(side(fa, k).some /\ side(fa, k) = side(fb, k))}}

RECURSIVE OnlyIn(_, _, _)
\* the files beneath the names that a directory of A has and the directory of
\* B at the same relative path has not
OnlyIn(A, B, path) ==
    IF A.kind = "dir" /\ B.kind = "dir"
    THEN UNION {IF HasChild(B, A.ch[i].name)
                THEN OnlyIn(A.ch[i].node, ChildOf(B, A.ch[i].name),
                            JoinKey(path, A.ch[i].name))
                ELSE FilesOf(A.ch[i].node, JoinKey(path, A.ch[i].name)) :
                  i \in 1..Len(A.ch)}
    ELSE {}

RECURSIVE Materialized(_, _)
\* the tree that the store describes under the hash h
Materialized(db, h) ==
    IF select_is_file(db, h).is_file THEN File(select_data(db, h).data)
    ELSE LET rows == select_children(db, h)
         IN Dir([i \in 1..Len(rows) |->
                   [name |-> rows[i].child_name,
                    node |-> Materialized(db, rows[i].child_hash)]])

----------------------------------------------------------------------------
\* C1: after any sequence of store calls, any two stored filesystem entries
\* that received the same hash have the same kind and the same content or
\* child list.
C1_OneNodePerHash ==
    \A e1, e2 \in seen :
        e1.hash = e2.hash =>
            /\ e1.kind = e2.kind
            /\ e1.data = e2.data
            /\ e1.children = e2.children

\* C2: for two stored directory trees A and B, diff(hash(A), hash(B)) has a key
\* for exactly the paths that are a file in A or in B, except those that are
\* files in both with identical content; old content is A's, new content B's.
C2_DiffExact ==
    (ret.op = "diff" /\ ret.old.tree.kind = "dir" /\ ret.new.tree.kind = "dir")
        => (~ret.err /\ ret.res = ExpectedDiff(ret.old.tree, ret.new.tree))

\* C3: diff_path(h_old, p) returns the same mapping as diff(h_old, store(p)).
C3_DiffPathAsDiff ==
    (ret.op = "diff_path" /\ ret.live.kind # "none")
        => \A ord \in Orders :
              \E s \in {store_rec(ret.live, Db, ord)} :
              \E r \in {diff(s.db, ret.old.hash, s.hash)} :
                  ret.err = r.err /\ ret.res = r.map

\* C4: diff_path reports as removed, under its full relative path, every file
\* beneath a child name that the stored old directory has and the live
\* directory has not.
C4_RemovedBelow ==
    (ret.op = "diff_path" /\ ret.live.kind # "none")
        => \A f \in OnlyIn(ret.old.tree, ret.live, <<>>) :
              \E e \in ret.res : e.key = f.key /\ is_removed(e.val)

\* C5: diff_path reports as new, under its '/'-joined relative path, every
\* file beneath a child name that the live directory has and the stored old
\* directory has not.
C5_AddedBelow ==
    (ret.op = "diff_path" /\ ret.live.kind # "none")
        => \A f \in OnlyIn(ret.live, ret.old.tree, <<>>) :
              \E e \in ret.res : e.key = f.key /\ is_new(e.val)

\* C6: after h = store(P), fetch(h, Q) to a target that does not exist
\* succeeds, and a following store(Q) returns h.
C6_RoundTrip ==
    (ret.op = "fetch" /\ ret.pre[ret.path].kind = "none")
        => /\ ret.ok
           /\ \A ord \in Orders :
                 \E s \in {store_rec(fs[ret.path], Db, ord)} :
                     ~s.err /\ s.hash = ret.src.hash

\* C7: fetch(h, target) to a target that does not exist returns true and
\* leaves there a regular file with h's content when h is a file, and a
\* directory with exactly h's children, each materialized, when h is a
\* directory.
C7_FetchMaterializes ==
    (ret.op = "fetch" /\ ret.pre[ret.path].kind = "none")
        => (ret.ok /\ fs[ret.path] = Materialized(Db, ret.src.hash))

\* C8: when anything exists at the target, fetch returns false and leaves the
\* filesystem as it was.
C8_NoOverwrite ==
    (ret.op = "fetch" /\ ret.pre[ret.path].kind # "none")
        => (~ret.ok /\ fs = ret.pre)

\* a fetch was refused at a directory that has entries beneath it
W_C8 ==
    /\ ret.op = "fetch"
    /\ ret.pre[ret.path].kind = "dir"
    /\ ret.pre[ret.path].ch # <<>>
    /\ ret.src.tree.kind = "dir"
    /\ ret.src.tree # ret.pre[ret.path]
    /\ ~ret.ok

\* C9: storing the same unchanged tree again returns the same hash and leaves
\* the three tables as they were.
C9_StoreTwice ==
    (ret.op = "store" /\ ~ret.err /\ ret.again)
        => /\ <<nodes, contents, contains>> = ret.pre
           /\ \A o \in roots : (o.path = ret.path /\ o.tree = ret.tree)
                                  => o.hash = ret.hash

\* a directory with entries was stored a second time
W_C9 ==
    /\ ret.op = "store"
    /\ ~ret.err
    /\ ret.again
    /\ ret.tree.kind = "dir"
    /\ ret.tree.ch # <<>>

\* C10: the store holds at most one node row per hash, one content row per
\* distinct file content, and one edge row per (parent hash, child name).
C10_NoDuplicateRows ==
    /\ \A r \in BagToSet(nodes) :
          /\ CopiesIn(r, nodes) = 1
          /\ \A q \in BagToSet(nodes) : q.hash = r.hash => q = r
    /\ \A r \in BagToSet(contents) :
          /\ CopiesIn(r, contents) = 1
          /\ \A q \in BagToSet(contents) :
                (q.hash = r.hash \/ q.data = r.data) => q = r
    /\ \A r \in BagToSet(contains) :
          /\ CopiesIn(r, contains) = 1
          /\ \A q \in BagToSet(contains) :
                (q.parent = r.parent /\ q.child_name = r.child_name) => q = r

\* byte-identical files at two paths of the stored trees share a content row
W_C10 ==
    \E o, n \in roots :
        \E f \in FilesOf(o.tree, <<o.path>>), g \in FilesOf(n.tree, <<n.path>>) :
            /\ f.key # g.key
            /\ f.data = g.data
            /\ f.data # <<>>
            /\ \E r \in BagToSet(contents) : r.data = f.data

\* C11: the hash store returns for a tree is the same whatever order the
\* directory scans enumerate children in, and two stored trees with the same
\* files and names have the same hash.
C11_OrderIndependent ==
    /\ \A o, n \in roots : o.tree = n.tree => o.hash = n.hash
    /\ (ret.op = "store" /\ ~ret.err)
          => \A ord \in Orders : store_rec(ret.tree, Db, ord).hash = ret.hash

\* a directory with two different children was stored a second time
W_C11 ==
    /\ ret.op = "store"
    /\ ~ret.err
    /\ ret.again
    /\ Len(ret.tree.ch) = 2
    /\ ret.tree.ch[1].node # ret.tree.ch[2].node

\* C12: for every hash h present in the store, diff(h, h) returns the empty
\* mapping.
C12_DiffSelfEmpty ==
    ret.op = "diff_same" => (~ret.err /\ ret.res = {})

\* a stored directory that has a file beneath it was compared with itself
W_C12 ==
    /\ ret.op = "diff_same"
    /\ \E r \in BagToSet(contains) :
          /\ r.parent = ret.hash
          /\ \E c \in BagToSet(contents) : c.hash = r.child_hash

RECURSIVE KindClash(_, _, _)
\* the paths that are a file in one of the trees A, B and a directory in the
\* other, each with the entry of either side
KindClash(A, B, path) ==
    IF A.kind = "dir" /\ B.kind = "dir"
    THEN UNION {IF HasChild(B, A.ch[i].name)
                THEN KindClash(A.ch[i].node, ChildOf(B, A.ch[i].name),
                               JoinKey(path, A.ch[i].name))
                ELSE {} : i \in 1..Len(A.ch)}
    ELSE IF A.kind # B.kind THEN {[key |-> path, old |-> A, new |-> B]}
    ELSE {}

\* C13: where a path is a file in one stored tree and a directory in the
\* other, diff has at that path one entry that carries the file side only,
\* and one entry, on the directory's side only, for every file beneath the
\* directory.
C13_TypeMismatch ==
    ret.op = "diff" =>
        \A m \in KindClash(ret.old.tree, ret.new.tree, <<>>) :
            /\ ~ret.err
            /\ \E e \in ret.res : e.key = m.key
            /\ \A e \in ret.res :
                  e.key = m.key =>
                     e.val = IF m.old.kind = "file"
                             THEN [old_data |-> Some(m.old.data), new_data |-> None]
                             ELSE [old_data |-> None, new_data |-> Some(m.new.data)]
            /\ \A f \in FilesOf(IF m.old.kind = "dir" THEN m.old ELSE m.new, m.key) :
                  \E e \in ret.res :
                     /\ e.key = f.key
                     /\ e.val = IF m.old.kind = "dir"
                                THEN [old_data |-> Some(f.data), new_data |-> None]
                                ELSE [old_data |-> None, new_data |-> Some(f.data)]

\* C14: every key in the result of diff and of diff_path is the path of a
\* regular file on at least one of the two compared sides, so none is the
\* path of a directory on both sides.
C14_KeysAreFiles ==
    /\ ret.op = "diff" =>
          \A e \in ret.res :
             \E f \in FilesOf(ret.old.tree, <<>>) \cup FilesOf(ret.new.tree, <<>>) :
                f.key = e.key
    /\ (ret.op = "diff_path" /\ ret.live.kind # "none") =>
          \A e \in ret.res :
             \E f \in FilesOf(ret.old.tree, <<>>) \cup FilesOf(ret.live, <<>>) :
                f.key = e.key

\* C15: for a tree stored at hash h, find(h, path) returns the hash of the
\* entry the component names of path lead to from the root, None when a
\* component is not a child of the entry reached so far, and h for "".
C15_FindWalks ==
    (ret.op = "find" /\ ret.path.some
        /\ ret.path.val = Join(Components(ret.path.val)))
        => /\ ~ret.err
           /\ ret.res = LET n == Walk(ret.src.tree, Components(ret.path.val))
                        IN IF n.kind = "none" THEN None ELSE Some(TreeHash(n))

\* C16 as stated: find returns the same result when any number of '/' is put
\* before and after the path, and a path of slashes alone resolves to h.
C16_AnySlashes ==
    (ret.op = "find" /\ ret.path.some) =>
        /\ \A i, j \in 0..MaxSlashes :
              find(Db, ret.src.hash,
                   Some(Slashes(i) \o ret.path.val \o Slashes(j))).hash = ret.res
        /\ (ret.path.val # <<>> /\ Components(ret.path.val) = <<>>)
              => ret.res = Some(ret.src.hash)

\* C16, amended: for a non-empty path p that neither begins nor ends with
\* '/', find returns the same result for p, '/' + p, p + '/' and
\* '/' + p + '/'; and the path '/' resolves to h.
C16_OneSlash ==
    (ret.op = "find" /\ ret.path.some) =>
        /\ (/\ ret.path.val # <<>>
            /\ Head(ret.path.val) # "/"
            /\ ret.path.val[Len(ret.path.val)] # "/")
              => \A i, j \in 0..1 :
                    find(Db, ret.src.hash,
                         Some(Slashes(i) \o ret.path.val \o Slashes(j)))
                       = [err |-> FALSE, hash |-> ret.res]
        /\ ret.path.val = <<"/">> => ret.res = Some(ret.src.hash)

\* a path of two components that begins and ends with one '/' was resolved
\* to an entry of the stored tree
W_C16 ==
    /\ ret.op = "find"
    /\ ret.path.some
    /\ \E c \in PlainPaths :
          /\ Len(Components(c)) = 2
          /\ ret.path.val = <<"/">> \o c \o <<"/">>
    /\ ret.res.some
    /\ ret.res # Some(ret.src.hash)

\* C17: once a hash is in the store, its recorded kind, its content row
\* (present or absent, and its bytes) and its set of edges stay the same in
\* every later step.
C17_NodesImmutable ==
    [][\A r \in BagToSet(nodes) :
          /\ r \in BagToSet(nodes')
          /\ {c \in BagToSet(contents) : c.hash = r.hash}
                = {c \in BagToSet(contents') : c.hash = r.hash}
          /\ {e \in BagToSet(contains) : e.parent = r.hash}
                = {e \in BagToSet(contains') : e.parent = r.hash}]_vars

\* C18: two store calls whose insert steps interleave each return the hash
\* they return when run alone, and leave the tables as the two calls run one
\* after the other leave them, in either order.
C18_InterleavedAsSequential ==
    (calls # <<>> /\ \A c \in DOMAIN calls : calls[c].todo = <<>>) =>
        \A op, on \in Orders :
           \E e \in {[nodes |-> EmptyBag, contents |-> EmptyBag,
                       contains |-> EmptyBag, seen |-> {}]} :
           \E p1 \in {store_rec(fs["P"], e, op)}, n1 \in {store_rec(fs["N"], e, on)} :
           \E pn \in {store_rec(fs["N"], p1.db, on)}, np \in {store_rec(fs["P"], n1.db, op)} :
              /\ calls["P"].hash = Some(p1.hash)
              /\ calls["N"].hash = Some(n1.hash)
              /\ <<nodes, contents, contains>>
                    = <<pn.db.nodes, pn.db.contents, pn.db.contains>>
              /\ <<nodes, contents, contains>>
                    = <<np.db.nodes, np.db.contents, np.db.contains>>

RECURSIVE Within(_, _)
\* every entry of the tree a is an entry of the tree b, with the same kind
\* and content
Within(a, b) ==
    /\ a.kind = b.kind
    /\ a.data = b.data
    /\ \A i \in 1..Len(a.ch) :
          /\ HasChild(b, a.ch[i].name)
          /\ Within(a.ch[i].node, ChildOf(b, a.ch[i].name))

\* the entries of a tree, the root included
Made(node) == IF node.kind = "none" THEN 0 ELSE 1 + Entries(node)

\* C19: fetch returns false when the hash is not in the store, when the
\* target exists, and when the filesystem refuses a call; a failed fetch
\* removes nothing, and the entries it created before the failure are all
\* still there.
C19_NoRollback ==
    ret.op = "fetch" =>
        /\ (\/ ~select_is_file(Db, ret.hash).found
            \/ ret.pre[ret.path].kind # "none"
            \/ (ret.quota.some
                  /\ select_is_file(Db, ret.hash).found
                  /\ ret.quota.val < Made(Materialized(Db, ret.hash))))
              => ~ret.ok
        /\ ~ret.ok =>
              /\ \A s \in Slots \ {ret.path} : fs[s] = ret.pre[s]
              /\ ret.pre[ret.path].kind # "none" => fs = ret.pre
              /\ (/\ ret.pre[ret.path].kind = "none"
                  /\ ret.quota.some
                  /\ select_is_file(Db, ret.hash).found
                  /\ ~select_is_file(Db, ret.hash).is_file)
                    => /\ Made(fs[ret.path]) = ret.quota.val
                       /\ fs[ret.path].kind # "none"
                             => Within(fs[ret.path], Materialized(Db, ret.hash))

\* a fetch failed after it had created a directory and a file in it
W_C19 ==
    /\ ret.op = "fetch"
    /\ ~ret.ok
    /\ ret.pre[ret.path].kind = "none"
    /\ fs[ret.path].kind = "dir"
    /\ \E i \in 1..Len(fs[ret.path].ch) : fs[ret.path].ch[i].node.kind = "file"
    /\ fs[ret.path] # Materialized(Db, ret.hash)

RECURSIVE HasOther(_)
\* the tree holds an entry that is neither a regular file nor a directory
HasOther(node) ==
    \/ node.kind = "other"
    \/ \E i \in 1..Len(node.ch) : HasOther(node.ch[i].node)

\* C20: store raises and returns no hash when its path does not exist and
\* when an entry of the tree is neither a regular file nor a directory; no
\* store call changes the filesystem.
C20_StoreFails ==
    [][ret'.op = "store" =>
          /\ fs' = fs
          /\ (fs[ret'.path].kind = "none" \/ HasOther(fs[ret'.path]))
                => (ret'.err /\ roots' = roots)]_vars

\* a store failed at an entry of another kind inside a directory, after it
\* had stored a sibling
W_C20 ==
    /\ ret.op = "store"
    /\ ret.err
    /\ fs[ret.path].kind = "dir"
    /\ HasOther(fs[ret.path])
    /\ nodes # EmptyBag

\* C21: every Diff value returned by diff and by diff_path has a side
\* present, so exactly one of is_new, is_removed, is_changed is true of it,
\* and where is_changed is true the old and the new content differ.
C21_DiffValues ==
    (ret.op \in {"diff", "diff_path"}) =>
        \A e \in ret.res :
            /\ e.val.old_data.some \/ e.val.new_data.some
            /\ \E k \in {<<TRUE, FALSE, FALSE>>, <<FALSE, TRUE, FALSE>>,
                          <<FALSE, FALSE, TRUE>>} :
                  k = <<is_new(e.val), is_removed(e.val), is_changed(e.val)>>
            /\ is_changed(e.val) => e.val.old_data # e.val.new_data

\* a comparison with the live tree returned a changed file, and the live
\* tree has a directory that the old tree has too
W_C21 ==
    /\ ret.op = "diff_path"
    /\ \E e \in ret.res : is_changed(e.val)
    /\ ret.live.kind = "dir"
    /\ ret.old.tree.kind = "dir"

RECURSIVE AllHashes(_)
\* the hashes of a tree's entries
AllHashes(node) ==
    {TreeHash(node)}
    \cup UNION {AllHashes(node.ch[i].node) : i \in 1..Len(node.ch)}

RECURSIVE Unshared(_, _)
\* the hashes of the entries of A and B that a comparison reaches through
\* matched paths whose two sides have different hashes
Unshared(A, B) ==
    IF TreeHash(A) = TreeHash(B) THEN {}
    ELSE {TreeHash(A), TreeHash(B)}
         \cup UNION {IF HasChild(B, A.ch[i].name)
                     THEN Unshared(A.ch[i].node, ChildOf(B, A.ch[i].name))
                     ELSE AllHashes(A.ch[i].node) : i \in 1..Len(A.ch)}
         \cup UNION {IF HasChild(A, B.ch[i].name) THEN {}
                     ELSE AllHashes(B.ch[i].node) : i \in 1..Len(B.ch)}

RECURSIVE SharedPaths(_, _, _)
\* the matched paths at which A and B have the same hash
SharedPaths(A, B, path) ==
    IF TreeHash(A) = TreeHash(B) THEN {path}
    ELSE UNION {IF HasChild(B, A.ch[i].name)
                THEN SharedPaths(A.ch[i].node, ChildOf(B, A.ch[i].name),
                                 JoinKey(path, A.ch[i].name))
                ELSE {} : i \in 1..Len(A.ch)}

\* the key is the path or lies beneath it
AtOrBeneath(key, path) ==
    \/ key = path
    \/ path = <<>>
    \/ Len(key) > Len(path) /\ SubSeq(key, 1, Len(path) + 1) = path \o <<"/">>

\* no entry at or beneath a shared path of A and B, and no SELECT for a hash
\* reached through shared paths only
SkipsShared(A, B, res, reads) ==
    /\ \A e \in res : \A sp \in SharedPaths(A, B, <<>>) : ~AtOrBeneath(e.key, sp)
    /\ \A q \in reads : q.hash \in Unshared(A, B)

\* C22: in diff and in diff_path, a matched path whose two sides have the
\* same hash contributes no entry, and no kind, children or content read is
\* issued for a node reached only through such a path.
C22_ShortCircuit ==
    /\ (ret.op = "diff" /\ ~ret.err)
          => SkipsShared(ret.old.tree, ret.new.tree, ret.res, ret.reads)
    /\ (ret.op = "diff_path" /\ ~ret.err /\ ret.live.kind # "none")
          => SkipsShared(ret.old.tree, ret.live, ret.res, ret.reads)

\* C23: after every store call, also one that failed partway, the parent
\* hash and the child hash of every edge row have a node row, and every node
\* row marked as a file has a content row.
C23_StoreClosure ==
    /\ \A e \in BagToSet(contains) :
          /\ \E n \in BagToSet(nodes) : n.hash = e.parent
          /\ \E n \in BagToSet(nodes) : n.hash = e.child_hash
    /\ \A n \in BagToSet(nodes) :
          n.is_file => \E c \in BagToSet(contents) : c.hash = n.hash

\* a store failed at an entry of another kind after it had stored a
\* directory with a file in it
W_C23 ==
    /\ ret.op = "store"
    /\ ret.err
    /\ HasOther(fs[ret.path])
    /\ \E e \in BagToSet(contains) :
          \E n \in BagToSet(nodes) : n.hash = e.child_hash /\ n.is_file

\* the Diff value with its two sides exchanged
Swapped(e) == Item(e.key, [old_data |-> e.val.new_data, new_data |-> e.val.old_data])

\* C24: for two stored hashes a and b, diff(a, b) and diff(b, a) have the
\* same keys, and at every key the old content of one is the new content of
\* the other.
C24_DiffAntisymmetric ==
    ret.op = "diff" =>
        \E back \in {diff(Db, ret.new.hash, ret.old.hash)} :
            /\ back.err = ret.err
            /\ back.map = {Swapped(e) : e \in ret.res}

\* two stored directories were compared that differ in a file both have, in
\* a file only the old one has, and in a file only the new one has
W_C24 ==
    /\ ret.op = "diff"
    /\ ~ret.err
    /\ ret.old.tree.kind = "dir"
    /\ ret.new.tree.kind = "dir"
    /\ \E e \in ret.res : is_changed(e.val)
    /\ \E e \in ret.res : is_new(e.val) \/ is_removed(e.val)
====
